---- MODULE Spec2Model ----
(***************************************************************************)
(* Model of the MP3/video conversion service (src/main.py and src/utils).  *)
(* The state is the transient store (uploads/, midis/, wavs/, frames/),    *)
(* the single event loop of the ASGI server, and, per request, the         *)
(* handler's position and local variables, the job handed to the worker    *)
(* pool, the background tasks attached to the response and the response.   *)
(* Handler code between two suspension points runs as one action, because  *)
(* the event loop runs it without interruption; blocking calls made on the *)
(* loop keep the loop occupied until they return.                          *)
(***************************************************************************)
EXTENDS Integers, Sequences, FiniteSets, TLC

\* Number of requests the service handles in a behaviour.
NumReqs == 2

Reqs == 1..NumReqs

VARIABLES
    fs,          \* the store: path -> content, defined on the files that exist
    loop,        \* request whose code occupies the event loop thread, 0 when free
    pc,          \* per request: position of its handling
    req,         \* per request: its route, how the source was supplied, its options
    filepath,    \* per request: the handler's mp3_filepath / video_filepath
    frame_path,  \* per request: the handler's frame_path
    task,        \* per request: the job awaited by the handler (upload write or converter)
    bg,          \* per request: BackgroundTasks attached to the response
    resp,        \* per request: the response
    touched,     \* history, per request: paths it created, wrote or renamed to
    io,          \* history, per request: kinds of I/O it has performed
    log,         \* history, per request: its cleanup_file calls, in order
    last         \* history: the most recent call made by a harness

vars == <<fs, loop, pc, req, filepath, frame_path, task, bg, resp,
          touched, io, log, last>>

\* ------------------------------------------------------------------------
\* Values

NoPath == <<>>
NoFile == "no file"
None == "None"

Set(f, r, v) == [f EXCEPT ![r] = v]

\* Python truthiness of the values a form field or a JSON member can take.
Truthy(v) == v \notin {None, "", "null", "[]"}

\* Request bodies of the JSON routes: unparsable, null, an empty array, a
\* non-empty array, or an object.
JsonShapes == {"invalid", "null", "[]", "[1]", "object"}
IsDict(shape) == shape = "object"

\* Values of the "url" member / form field.
UrlValues == {None, "", "http://host/a"}

\* Declared filenames of an upload.
Filenames == {"a.mp3", "A.MP3", "a.wav"}

\* Values of the "format" member (None: absent or not a string), and the
\* ones the requests of a behaviour are drawn from.
Formats == {None, "png", "PNG", "jpg", "JPG", "jpeg", "JPEG", "gif"}
RequestedFormats == {None, "jpg", "gif"}

\* str.lower() on the strings of the model.
Lower(s) ==
    CASE s = "A.MP3" -> "a.mp3"
      [] s = "JPEG" -> "jpeg"
      [] s = "JPG" -> "jpg"
      [] s = "PNG" -> "png"
      [] s = ".MP4" -> ".mp4"
      [] s = ".WebM" -> ".webm"
      [] s = "VIDEO/WEBM" -> "video/webm"
      [] OTHER -> s

\* "sub in s" on the header values of the model.
Contains(s, sub) ==
    \/ s = sub
    \/ s = "video/mp4; codecs=avc1" /\ sub = "video/mp4"

\* An optional integer of a JSON body: the member when it is an int, else None.
Absent == [some |-> FALSE, v |-> 0]
Some(n) == [some |-> TRUE, v |-> n]

\* str.endswith('.mp3') on the filenames of the model.
EndsWithMp3(s) == s \in {"a.mp3"}

\* Faults the operating system can inject into os.remove, and the ones
\* that leave a trace in the store.
AllFaults == {"ok", "perm", "vanish"}
Faults == {"ok", "perm"}

\* Contents of a file.
Contents == {"empty", "partial", "complete"}

Exists(store, p) == p \in DOMAIN store
Write(store, p, c) == [q \in DOMAIN store \cup {p} |-> IF q = p THEN c ELSE store[q]]
Remove(store, p) == [q \in DOMAIN store \ {p} |-> store[q]]
Rename(store, a, b) ==
    [q \in (DOMAIN store \ {a}) \cup {b} |-> IF q = b THEN store[a] ELSE store[q]]
EmptyStore == [q \in {} |-> "empty"]

\* ------------------------------------------------------------------------
\* Transient store: naming

\* uuid.uuid4(): the k-th identifier drawn while handling request r.  Each
\* call returns a value no other call returns.
uuid4_reused(r, k) == k
uuid4(r, k) == 2 * (r - 1) + k

UploadPath(id, ext) == <<"uploads", id, ext>>
MidiPath(stem, suffix) == <<"midis", stem, suffix>>
WavPath(id) == <<"wavs", id, ".wav">>
FramePath(id, fmt) == <<"frames", id, fmt>>

\* A stem that does not depend on the name of the input file.
Stem_same_for_all(p) == 0

\* os.path.splitext(os.path.basename(path))[0]
Stem(p) == p[2]

\* ------------------------------------------------------------------------
\* Transient store: deletion

\* os.remove(p) under an operating-system fault: "perm" refuses the removal,
\* "vanish" lets the file disappear between the existence check and the call.
os_remove(store, p, fault) ==
    IF fault = "perm" THEN [fs |-> store, err |-> "PermissionError"]
    ELSE IF fault = "vanish" \/ ~Exists(store, p)
         THEN [fs |-> Remove(store, p), err |-> "FileNotFoundError"]
         ELSE [fs |-> Remove(store, p), err |-> "none"]

\* cleanup_file without its try/except: an OS error propagates to the caller.
cleanup_file_unguarded(store, p, fault) ==
    IF Exists(store, p)
    THEN LET rm == os_remove(store, p, fault)
         IN [fs |-> rm.fs, raised |-> rm.err # "none"]
    ELSE [fs |-> store, raised |-> FALSE]

\* cleanup_file(filepath): remove the file if it exists; "except Exception:
\* pass" swallows whatever os.remove raises.
cleanup_file(store, p, fault) ==
    IF Exists(store, p)
    THEN LET rm == os_remove(store, p, fault)
             caught == rm.err \in {"none", "PermissionError", "FileNotFoundError"}
         IN [fs |-> rm.fs, raised |-> ~caught]
    ELSE [fs |-> store, raised |-> FALSE]

\* ------------------------------------------------------------------------
\* Acquisition: extension of a downloaded video

UrlSuffixes == {".mp4", ".MP4", ".mov", ".m4v", ".webm", ".WebM", ".mkv", ".avi",
                ".bin", ""}
ContentTypes == {"", "video/mp4", "video/mp4; codecs=avc1", "video/webm",
                 "VIDEO/WEBM", "video/quicktime", "video/x-matroska",
                 "application/octet-stream"}
allowed_exts == {".mp4", ".mov", ".m4v", ".webm", ".mkv", ".avi"}

\* The suffixes and content types the requests of a behaviour are drawn from.
FetchedSuffixes == {".mov", ""}
FetchedContentTypes == {"video/webm"}

\* The extension taken from the Content-Type header alone.
FromContentType(contentType) ==
    LET content_type == Lower(contentType)
    IN IF Contains(content_type, "video/mp4") THEN ".mp4"
       ELSE IF Contains(content_type, "video/webm") THEN ".webm"
       ELSE IF Contains(content_type, "video/quicktime") THEN ".mov"
       ELSE IF Contains(content_type, "video/x-matroska") THEN ".mkv"
       ELSE ".mp4"

\* The inference with the header consulted before the URL path.
InferExt_content_type_first(suffix, contentType) ==
    IF contentType # "" THEN FromContentType(contentType)
    ELSE IF Lower(suffix) \in allowed_exts THEN Lower(suffix) ELSE ".mp4"

\* The inference with the URL suffix compared as it is written.
InferExt_suffix_as_written(suffix, contentType) ==
    IF suffix \in allowed_exts THEN suffix ELSE FromContentType(contentType)

\* download_file_from_url: extension from the URL path suffix, else from the
\* Content-Type header, else .mp4.
InferExt(suffix, contentType) ==
    LET path_ext == Lower(suffix)
    IN IF path_ext \in allowed_exts THEN path_ext
       ELSE FromContentType(contentType)

\* ------------------------------------------------------------------------
\* Converters: naming of the output

\* The extension of the frame file without the "jpeg" alias and the
\* lower-casing.
FrameSuffix_exact_jpg_only(image_format) ==
    IF image_format = "jpg" THEN ".jpg" ELSE ".png"

\* extract_first_frame / extract_last_frame: the extension of the frame file.
FrameSuffix(image_format) ==
    LET lowered == Lower(image_format)
        fmt == IF lowered = "jpeg" THEN "jpg" ELSE lowered
    IN IF fmt = "jpg" THEN ".jpg" ELSE ".png"

\* The handler's image_format: the "format" member if it is a string, else "png".
ImageFormat(format) == IF format = None THEN "png" ELSE format

\* ------------------------------------------------------------------------
\* Converters: the ffmpeg command line

\* Values of the "quality", "width", "height" and "sws_flags" members.
Qualities == {Absent, Some(0), Some(1), Some(2), Some(17), Some(31), Some(32), Some(50)}
Dimensions == {Absent, Some(0), Some(-1), Some(320)}
SwsFlags == {None, "", "lanczos"}

\* One option of the command line: a flag, its text and its numbers.
Opt(flag, text, nums) == [flag |-> flag, text |-> text, nums |-> nums]

\* The quality with the upper bound excluded.
JpgQuality_below_31(quality) ==
    IF quality.some /\ 2 <= quality.v /\ quality.v < 31 THEN quality.v ELSE 2

\* "q = quality if (isinstance(quality, int) and 2 <= quality <= 31) else 2"
JpgQuality(quality) ==
    IF quality.some /\ 2 <= quality.v /\ quality.v <= 31 THEN quality.v ELSE 2

\* "w = width if (isinstance(width, int) and width > 0) else -1"
ScaleSide(side) == IF side.some /\ side.v > 0 THEN side.v ELSE -1

\* The test with every integer, 0 included, counted as given.
Given_any_int(side) == side.some

\* "if width or height": None and 0 are false.
Given(side) == side.some /\ side.v # 0

\* The options "-vf scale=w:h" and "-sws_flags".
ScaleArgs(width, height, sws_flags) ==
    IF Given(width) \/ Given(height)
    THEN <<Opt("-vf", "scale", <<ScaleSide(width), ScaleSide(height)>>)>>
         \o (IF Truthy(sws_flags) THEN <<Opt("-sws_flags", sws_flags, <<>>)>> ELSE <<>>)
    ELSE <<>>

\* The options that depend on the image format: the branch is taken on the
\* lower-cased format with "jpeg" read as "jpg", and on nothing else.
FormatArgs(image_format, quality) ==
    LET lowered == Lower(image_format)
        fmt == IF lowered = "jpeg" THEN "jpg" ELSE lowered
    IN IF fmt = "jpg" THEN <<Opt("-q:v", "", <<JpgQuality(quality)>>)>>
       ELSE IF fmt = "png"
            THEN <<Opt("-compression_level", "", <<0>>), Opt("-pix_fmt", "rgb24", <<>>)>>
            ELSE <<>>

\* _run_ffmpeg_extract_first_frame / _run_ffmpeg_extract_last_frame: the
\* command line handed to subprocess.run.
FfmpegArgs(kind, width, height, image_format, quality, sws_flags, output) ==
    <<Opt("-hide_banner", "", <<>>), Opt("-loglevel", "error", <<>>), Opt("-y", "", <<>>),
      IF kind = "first" THEN Opt("-ss", "0", <<>>) ELSE Opt("-sseof", "-0.1", <<>>),
      Opt("-i", "input", <<>>), Opt("-frames:v", "", <<1>>)>>
        \o ScaleArgs(width, height, sws_flags)
        \o FormatArgs(image_format, quality)
        \o <<Opt("output", output, <<>>)>>

\* Routes and the conversion each selects.
AudioFormRoutes == {"/convert", "/convert/wav"}
AudioJsonRoutes == {"/convert/json", "/convert/wav/json"}
VideoRoutes == {"/convert/video/first-frame/json", "/convert/video/last-frame/json"}
Kind(route) ==
    CASE route \in {"/convert", "/convert/json"} -> "midi"
      [] route \in {"/convert/wav", "/convert/wav/json"} -> "wav"
      [] route = "/convert/video/first-frame/json" -> "first"
      [] route = "/convert/video/last-frame/json" -> "last"
      [] OTHER -> "none"
IsVideo(r) == req[r].route \in VideoRoutes
IsAudio(r) == req[r].route \in AudioFormRoutes \cup AudioJsonRoutes

\* The unique output path a converter is given for request r.
OutputTarget(r, k, fmt) ==
    CASE k = "midi" -> MidiPath(uuid4(r, 2), ".mid")
      [] k = "wav" -> WavPath(uuid4(r, 2))
      [] OTHER -> FramePath(uuid4(r, 2), FrameSuffix(fmt))

\* Names under which the pitch-detection engine may leave its output.
MidiSuffixes == <<"_basic_pitch.mid", ".mid", "_transcription.mid">>

\* ------------------------------------------------------------------------
\* Initial state

NoReq == [route |-> "none", source |-> "none", filename |-> NoFile, format |-> None]
NoTask == [path |-> NoPath, target |-> NoPath, engine |-> "none", result |-> "none"]
NoResp == [status |-> 0, mode |-> "none", out |-> NoPath, detail |-> "none",
           media_type |-> "none",
           escaped |-> FALSE]
NoCall == [path |-> NoPath, existed |-> FALSE, before |-> EmptyStore,
           after |-> EmptyStore, raised |-> FALSE, fault |-> "ok", calls |-> 0]

Init ==
    /\ fs = EmptyStore
    /\ loop = 0
    /\ pc = [r \in Reqs |-> "idle"]
    /\ req = [r \in Reqs |-> NoReq]
    /\ filepath = [r \in Reqs |-> NoPath]
    /\ frame_path = [r \in Reqs |-> NoPath]
    /\ task = [r \in Reqs |-> NoTask]
    /\ bg = [r \in Reqs |-> <<>>]
    /\ resp = [r \in Reqs |-> NoResp]
    /\ touched = [r \in Reqs |-> {}]
    /\ io = [r \in Reqs |-> {}]
    /\ log = [r \in Reqs |-> <<>>]
    /\ last = NoCall

\* ------------------------------------------------------------------------
\* Responses

ErrorResp(status, detail) ==
    [status |-> status, mode |-> "error", out |-> NoPath, detail |-> detail,
     media_type |-> "application/json", escaped |-> FALSE]

\* An exception that leaves the handler without being an HTTPException: the
\* server answers with its generic 500 page.
EscapedResp(detail) ==
    [status |-> 500, mode |-> "error", out |-> NoPath, detail |-> detail,
     media_type |-> "text/plain", escaped |-> TRUE]

UrlResp(out) ==
    [status |-> 200, mode |-> "url", out |-> out, detail |-> "conversion succeeded",
     media_type |-> "application/json", escaped |-> FALSE]

\* FileResponse(frame_path, media_type="image/png", ...): the media type is
\* the same literal on both video routes.
FileResp(out) ==
    [status |-> 200, mode |-> "file", out |-> out, detail |-> "none",
     media_type |-> "image/png", escaped |-> FALSE]

\* ------------------------------------------------------------------------
\* Audio routes: validation and acquisition (convert_mp3_to_midi,
\* convert_mp3_to_wav_endpoint up to their first suspension)

\* The validation with its second check missing.
ValidateSource_second_check_missing(hasFile, hasUrl) ==
    IF ~hasFile /\ ~hasUrl THEN "provide an MP3 file or a URL" ELSE "ok"

\* "if not file and not url" / "if file and url".
ValidateSource(hasFile, hasUrl) ==
    IF ~hasFile /\ ~hasUrl THEN "provide an MP3 file or a URL"
    ELSE IF hasFile /\ hasUrl THEN "only one of file and URL"
    ELSE "ok"

Supplied(hasFile, hasUrl) ==
    IF hasFile /\ hasUrl THEN "both"
    ELSE IF hasFile THEN "file"
    ELSE IF hasUrl THEN "url"
    ELSE "neither"

\* The handler raises HTTPException(400) before acquiring anything; its
\* "except HTTPException" finds mp3_filepath unset and re-raises.
Reject(r, detail) ==
    /\ pc' = Set(pc, r, "done")
    /\ resp' = Set(resp, r, ErrorResp(400, detail))
    /\ UNCHANGED <<fs, loop, filepath, frame_path, task, bg, touched, io, log, last>>

\* save_uploaded_file returning the path as soon as the file is opened: the
\* converter is dispatched on an upload that is still being written.
BeginSave_not_awaited(r) ==
    LET path == UploadPath(uuid4(r, 1), ".mp3")
    IN /\ fs' = Write(fs, path, "empty")
       /\ filepath' = Set(filepath, r, path)
       /\ task' = Set(task, r, [path |-> path, target |-> MidiPath(uuid4(r, 2), ".mid"),
                                engine |-> "none", result |-> "pending"])
       /\ pc' = Set(pc, r, "converting")
       /\ touched' = Set(touched, r, touched[r] \cup {path})
       /\ io' = Set(io, r, io[r] \cup {"write", "dispatch"})
       /\ UNCHANGED <<loop, frame_path, bg, resp, log, last>>

\* save_uploaded_file: a fresh upload path is opened for writing; the write
\* runs on a thread and the handler is suspended.
BeginSave(r) ==
    LET path == UploadPath(uuid4(r, 1), ".mp3")
    IN /\ fs' = Write(fs, path, "empty")
       /\ task' = Set(task, r, [path |-> path, target |-> NoPath,
                                engine |-> "none", result |-> "pending"])
       /\ pc' = Set(pc, r, "saving")
       /\ touched' = Set(touched, r, touched[r] \cup {path})
       /\ io' = Set(io, r, io[r] \cup {"write"})
       /\ UNCHANGED <<loop, filepath, frame_path, bg, resp, log, last>>

\* download_mp3_from_url / download_file_from_url: requests.get is called
\* from the coroutine itself, so the event loop thread is inside the call
\* until it returns.
BeginFetch(r) ==
    /\ pc' = Set(pc, r, "fetching")
    /\ loop' = r
    /\ io' = Set(io, r, io[r] \cup {"fetch"})
    /\ UNCHANGED <<fs, filepath, frame_path, task, bg, resp, touched, log, last>>

\* The extension check without the lower-casing.
AcceptsUpload_case_sensitive(file) == EndsWithMp3(file)

\* "file.filename.lower().endswith('.mp3')"
AcceptsUpload(file) == EndsWithMp3(Lower(file))

AudioBegin(r, route, file, url) ==
    LET hasFile == file # NoFile
        hasUrl == Truthy(url)
        verdict == ValidateSource(hasFile, hasUrl)
    IN /\ req' = Set(req, r, [route |-> route, source |-> Supplied(hasFile, hasUrl),
                              filename |-> file, format |-> None])
       /\ IF verdict # "ok" THEN Reject(r, verdict)
          ELSE IF hasFile
               THEN IF ~AcceptsUpload(file) THEN Reject(r, "only MP3 files")
                    ELSE BeginSave(r)
               ELSE BeginFetch(r)

\* Requests are numbered in the order in which the server accepts them.
Accepts(r) ==
    /\ pc[r] = "idle"
    /\ loop = 0
    /\ \A q \in Reqs : q < r => pc[q] # "idle"

\* POST /convert and POST /convert/wav (multipart form).  An empty form
\* field reaches the handler as None.
FormRequest(r) ==
    /\ Accepts(r)
    /\ \E route \in AudioFormRoutes, file \in Filenames \cup {NoFile},
          url \in UrlValues \ {""} :
          AudioBegin(r, route, file, url)

\* POST /convert/json and POST /convert/wav/json: data = {} when the body
\* does not parse, then data.get("url") outside any try block.
JsonRequest(r) ==
    /\ Accepts(r)
    /\ \E route \in AudioJsonRoutes, shape \in JsonShapes, url \in UrlValues :
          LET data == IF shape = "invalid" THEN "object" ELSE shape
              member == IF shape = "invalid" THEN None ELSE url
          IN IF ~IsDict(data)
             THEN /\ req' = Set(req, r, [route |-> route, source |-> "neither",
                                         filename |-> NoFile, format |-> None])
                  /\ pc' = Set(pc, r, "done")
                  /\ resp' = Set(resp, r, EscapedResp("AttributeError"))
                  /\ UNCHANGED <<fs, loop, filepath, frame_path, task, bg,
                                 touched, io, log, last>>
             ELSE AudioBegin(r, route, NoFile, member)

\* POST /convert/video/first-frame/json and .../last-frame/json: the body is
\* read outside the try block; "(data or {}).get" and "data.get" raise
\* AttributeError on a body that is not an object.
VideoRequest(r) ==
    /\ Accepts(r)
    /\ \E route \in VideoRoutes, shape \in JsonShapes, url \in UrlValues,
          format \in RequestedFormats :
          LET data == IF shape = "invalid" THEN "object" ELSE shape
              sent == shape = "object"
              member == IF sent THEN url ELSE None
              raises == (Truthy(data) /\ ~IsDict(data)) \/ ~IsDict(data)
          IN /\ req' = Set(req, r,
                    [route |-> route,
                     source |-> IF Truthy(member) THEN "url" ELSE "neither",
                     filename |-> NoFile,
                     format |-> IF sent THEN format ELSE None])
             /\ IF raises
                THEN /\ pc' = Set(pc, r, "done")
                     /\ resp' = Set(resp, r, EscapedResp("AttributeError"))
                     /\ UNCHANGED <<fs, loop, filepath, frame_path, task, bg,
                                    touched, io, log, last>>
                ELSE IF ~Truthy(member) THEN Reject(r, "provide a video URL")
                ELSE BeginFetch(r)

\* ------------------------------------------------------------------------
\* The handler's except blocks

CleanupCall(p, fault, phase) == [path |-> p, fault |-> fault, phase |-> phase]

\* "if mp3_filepath: cleanup_file(mp3_filepath)" and, on the video routes,
\* "if frame_path: cleanup_file(frame_path)".
HandlerExcept(input, frame, store, fault) ==
    LET c1 == IF input # NoPath
              THEN cleanup_file(store, input, fault)
              ELSE [fs |-> store, raised |-> FALSE]
        second == frame # NoPath /\ ~c1.raised
        c2 == IF second THEN cleanup_file(c1.fs, frame, fault) ELSE c1
    IN [fs |-> c2.fs,
        raised |-> c2.raised,
        calls |-> (IF input # NoPath
                   THEN <<CleanupCall(input, fault, "except")>> ELSE <<>>)
                  \o (IF second
                      THEN <<CleanupCall(frame, fault, "except")>> ELSE <<>>)]

\* The request ends in the handler's except block, entered with the local
\* variables input and frame and after the cleanup calls made so far:
\* HTTPException is re-raised as it is, anything else becomes
\* HTTPException(500).
\* The except block without its "except HTTPException: ... raise" clause:
\* every exception is wrapped in HTTPException(500).
FailWith_all_wrapped(r, input, frame, store, made, status, detail, fault) ==
    LET ex == HandlerExcept(input, frame, store, fault)
    IN /\ fs' = ex.fs
       /\ log' = Set(log, r, log[r] \o made \o ex.calls)
       /\ resp' = Set(resp, r, IF ex.raised THEN EscapedResp("OSError")
                               ELSE ErrorResp(500, detail))
       /\ pc' = Set(pc, r, "done")

FailWith(r, input, frame, store, made, status, detail, fault) ==
    LET ex == HandlerExcept(input, frame, store, fault)
    IN /\ fs' = ex.fs
       /\ log' = Set(log, r, log[r] \o made \o ex.calls)
       /\ resp' = Set(resp, r, IF ex.raised THEN EscapedResp("OSError")
                               ELSE ErrorResp(status, detail))
       /\ pc' = Set(pc, r, "done")

Fail(r, store, status, detail, fault) ==
    FailWith(r, filepath[r], frame_path[r], store, <<>>, status, detail, fault)

\* ------------------------------------------------------------------------
\* Dispatch: mp3_to_midi, mp3_to_wav, extract_first_frame, extract_last_frame
\* draw the output name and hand the blocking converter to the executor.
Dispatch(r, input) ==
    /\ filepath' = Set(filepath, r, input)
    /\ task' = Set(task, r,
            [path |-> input,
             target |-> OutputTarget(r, Kind(req[r].route), ImageFormat(req[r].format)),
             engine |-> "none", result |-> "pending"])
    /\ pc' = Set(pc, r, "converting")

\* ------------------------------------------------------------------------
\* Acquisition

\* The thread writing the upload finishes, or fails with an OS error.
SaveRun(r) ==
    /\ pc[r] = "saving"
    /\ \E ok \in BOOLEAN :
          /\ fs' = Write(fs, task[r].path, IF ok THEN "complete" ELSE "partial")
          /\ task' = Set(task, r, [task[r] EXCEPT !.result = IF ok THEN "ok" ELSE "OSError"])
    /\ pc' = Set(pc, r, "saved")
    /\ UNCHANGED <<loop, req, filepath, frame_path, bg, resp, touched, io, log, last>>

\* The handler resumes after "await save_uploaded_file(file)".
AfterSave(r) ==
    /\ pc[r] = "saved"
    /\ loop = 0
    /\ IF task[r].result = "ok"
       THEN /\ Dispatch(r, task[r].path)
            /\ io' = Set(io, r, io[r] \cup {"dispatch"})
            /\ UNCHANGED <<fs, resp, log>>
       ELSE /\ \E fault \in Faults : Fail(r, fs, 500, "conversion failed: OSError", fault)
            /\ UNCHANGED <<filepath, task, io>>
    /\ UNCHANGED <<loop, req, frame_path, bg, touched, last>>

FetchOutcomes == {"ok", "unreachable", "http error", "stream broken"}

\* The download with the target file opened before the request is made.
Downloaded_opened_first(store, path, outcome) ==
    Write(store, path, IF outcome = "ok" THEN "complete" ELSE "partial")

\* The store after the download: "requests.get" and "raise_for_status" come
\* before "open(filepath, 'wb')", so that a fetch that fails before the
\* body is streamed creates no file.
Downloaded(store, path, outcome) ==
    CASE outcome = "ok" -> Write(store, path, "complete")
      [] outcome = "stream broken" -> Write(store, path, "partial")
      [] OTHER -> store

\* requests.get returns or raises; the body is streamed to a fresh upload
\* path; the handler continues up to the dispatch of the converter.
FetchEnd(r) ==
    /\ pc[r] = "fetching"
    /\ loop = r
    /\ \E outcome \in FetchOutcomes, suffix \in FetchedSuffixes,
          contentType \in FetchedContentTypes :
          LET ext == IF IsVideo(r) THEN InferExt(suffix, contentType) ELSE ".mp3"
              path == UploadPath(uuid4(r, 1), ext)
              detail == IF IsVideo(r) THEN "video download failed"
                        ELSE "MP3 download failed"
              store == Downloaded(fs, path, outcome)
              opened == IF Exists(store, path) THEN {path} ELSE {}
              wrote == IF Exists(store, path) THEN {"write"} ELSE {}
          IN /\ touched' = Set(touched, r, touched[r] \cup opened)
             /\ IF outcome = "ok"
                THEN /\ fs' = store
                     /\ Dispatch(r, path)
                     /\ io' = Set(io, r, io[r] \cup wrote \cup {"dispatch"})
                     /\ UNCHANGED <<resp, log>>
                ELSE /\ \E fault \in Faults : Fail(r, store, 400, detail, fault)
                     /\ io' = Set(io, r, io[r] \cup wrote \cup {outcome})
                     /\ UNCHANGED <<filepath, task>>
    /\ loop' = 0
    /\ UNCHANGED <<req, frame_path, bg, last>>

\* ------------------------------------------------------------------------
\* Converters, on a thread of the executor

Converting(r, k) == pc[r] = "converting" /\ Kind(req[r].route) \in k

Returned(r, store, engine, result, created) ==
    /\ fs' = store
    /\ task' = Set(task, r, [task[r] EXCEPT !.engine = engine, !.result = result])
    /\ touched' = Set(touched, r, touched[r] \cup created)
    /\ UNCHANGED <<loop, req, filepath, frame_path, bg, resp, io, log, last>>

MidiOutcomes == {"basic_pitch", "plain", "transcription", "unknown name",
                 "nothing", "raise", "raise after writing"}

\* Name of the file the engine leaves for an input stem.
EngineFile(stem, outcome) ==
    CASE outcome = "basic_pitch" -> MidiPath(stem, MidiSuffixes[1])
      [] outcome = "plain" -> MidiPath(stem, MidiSuffixes[2])
      [] outcome = "transcription" -> MidiPath(stem, MidiSuffixes[3])
      [] outcome = "unknown name" -> MidiPath(stem, "_notes.mid")
      [] outcome = "raise after writing" -> MidiPath(stem, MidiSuffixes[1])
      [] OTHER -> NoPath

\* _convert_to_midi_sync, first half: predict_and_save runs the engine,
\* which names its output after the input file.
PredictAndSave(r) ==
    /\ Converting(r, {"midi"})
    /\ \E outcome \in MidiOutcomes :
          LET out == EngineFile(Stem(task[r].path), outcome)
              failed == outcome \in {"raise", "raise after writing"}
              store == IF out = NoPath THEN fs
                       ELSE Write(fs, out, IF failed THEN "partial" ELSE "complete")
          IN /\ Returned(r, store, outcome,
                         IF failed THEN "Basic Pitch error" ELSE "pending",
                         IF out = NoPath THEN {} ELSE {out})
             /\ pc' = Set(pc, r, IF failed THEN "converted" ELSE "engine done")

\* The search with the candidates tried from the last to the first.
FindGenerated_last_first(store, stem) ==
    LET hits == {i \in DOMAIN MidiSuffixes : Exists(store, MidiPath(stem, MidiSuffixes[i]))}
    IN IF hits = {} THEN NoPath
       ELSE MidiPath(stem, MidiSuffixes[CHOOSE i \in hits : \A j \in hits : i >= j])

\* The first candidate name that exists: the primary name, then the
\* fallbacks in order; NoPath when none exists.
FindGenerated(store, stem) ==
    LET hits == {i \in DOMAIN MidiSuffixes : Exists(store, MidiPath(stem, MidiSuffixes[i]))}
    IN IF hits = {} THEN NoPath
       ELSE MidiPath(stem, MidiSuffixes[CHOOSE i \in hits : \A j \in hits : i <= j])

\* The discovery with the engine's file copied to the target, not renamed.
DiscoverAndRename_copied(store, stem, target) ==
    LET found == FindGenerated(store, stem)
    IN IF found = NoPath
       THEN [fs |-> store, result |-> "no MIDI output found"]
       ELSE [fs |-> Write(store, target, store[found]), result |-> "ok"]

\* The renaming of the engine's file to <file_id>.mid: os.rename of the
\* first candidate that exists, or the exception of the for/else.
DiscoverAndRename(store, stem, target) ==
    LET found == FindGenerated(store, stem)
    IN IF found = NoPath
       THEN [fs |-> store, result |-> "no MIDI output found"]
       ELSE [fs |-> Rename(store, found, target), result |-> "ok"]

\* _convert_to_midi_sync, second half: rename the engine's file to
\* <file_id>.mid, or raise when no candidate exists.
DiscoverRename(r) ==
    /\ pc[r] = "engine done"
    /\ LET d == DiscoverAndRename(fs, Stem(task[r].path), task[r].target)
       IN Returned(r, d.fs, task[r].engine, d.result,
                   IF d.result = "ok" THEN {task[r].target} ELSE {})
    /\ pc' = Set(pc, r, "converted")

WavOutcomes == {"ok", "raise", "raise after opening"}

\* _convert_to_wav_sync: AudioSegment.from_mp3 and export to the exact
\* output path.
ConvertToWavSync(r) ==
    /\ Converting(r, {"wav"})
    /\ \E outcome \in WavOutcomes :
          CASE outcome = "ok" ->
                 Returned(r, Write(fs, task[r].target, "complete"), outcome, "ok",
                          {task[r].target})
            [] outcome = "raise after opening" ->
                 Returned(r, Write(fs, task[r].target, "empty"), outcome, "pydub error",
                          {task[r].target})
            [] OTHER -> Returned(r, fs, outcome, "pydub error", {})
    /\ pc' = Set(pc, r, "converted")

FfmpegOutcomes == {"exit 0", "exit 0, empty file", "exit 0, no file", "exit 1",
                   "exit 1, partial file", "not found"}

\* The messages of the frame extraction.  Only the one raised on a non-zero
\* exit code is built from completed.stderr.
FfmpegFailed == "ffmpeg failed: <stderr>"
FfmpegNotFound == "ffmpeg not found, install it and put it on PATH"
NoValidFrame == "ffmpeg finished but produced no valid frame file"

\* _run_ffmpeg_extract_first_frame / _run_ffmpeg_extract_last_frame:
\* subprocess.run; a non-zero exit code and FileNotFoundError raise.
RunFfmpeg(r) ==
    /\ Converting(r, {"first", "last"})
    /\ \E outcome \in FfmpegOutcomes :
          CASE outcome = "exit 0" ->
                 Returned(r, Write(fs, task[r].target, "complete"), outcome, "ok",
                          {task[r].target})
            [] outcome = "exit 0, empty file" ->
                 Returned(r, Write(fs, task[r].target, "empty"), outcome, "ok",
                          {task[r].target})
            [] outcome = "exit 0, no file" -> Returned(r, fs, outcome, "ok", {})
            [] outcome = "exit 1" -> Returned(r, fs, outcome, FfmpegFailed, {})
            [] outcome = "exit 1, partial file" ->
                 Returned(r, Write(fs, task[r].target, "partial"), outcome,
                          FfmpegFailed, {task[r].target})
            [] OTHER -> Returned(r, fs, outcome, FfmpegNotFound, {})
    /\ pc' = Set(pc, r, "converted")

\* ------------------------------------------------------------------------
\* The handler resumes after the converter

\* The path the audio handlers delete after a successful conversion.
InputToClean_output(r) == task[r].target
InputToClean(r) == filepath[r]

\* convert_mp3_to_midi / convert_mp3_to_wav_endpoint after "await
\* mp3_to_midi(...)" / "await mp3_to_wav(...)": delete the input and build
\* the URL response, or run the except block.
AudioResume(r) ==
    /\ pc[r] = "converted"
    /\ IsAudio(r)
    /\ loop = 0
    /\ \E fault \in Faults :
          IF task[r].result # "ok"
          THEN Fail(r, fs, 500, task[r].result, fault)
          ELSE LET c == cleanup_file(fs, InputToClean(r), fault)
                   made == <<CleanupCall(InputToClean(r), fault, "handler")>>
               IN IF c.raised
                  THEN FailWith(r, filepath[r], NoPath, c.fs, made, 500, "OSError", fault)
                  ELSE /\ fs' = c.fs
                       /\ log' = Set(log, r, log[r] \o made)
                       /\ resp' = Set(resp, r, UrlResp(task[r].target))
                       /\ pc' = Set(pc, r, "done")
    /\ UNCHANGED <<loop, req, filepath, frame_path, task, bg, touched, io, last>>

\* Deleting the frame in the handler instead of scheduling the deletion.
ScheduleCleanup_immediate(store, tasks, path, fault) ==
    [fs |-> cleanup_file(store, path, fault).fs, bg |-> tasks,
     calls |-> <<CleanupCall(path, fault, "handler")>>]

\* background_tasks.add_task(cleanup_file, frame_path)
ScheduleCleanup(store, tasks, path, fault) ==
    [fs |-> store, bg |-> Append(tasks, path), calls |-> <<>>]

\* The output check with the size test missing.
ValidFrame_size_unchecked(store, out) == Exists(store, out)

\* "not os.path.exists(output_path) or os.path.getsize(output_path) == 0"
\* is the failure; this is its negation.
ValidFrame(store, out) == Exists(store, out) /\ store[out] # "empty"

\* extract_first_frame / extract_last_frame after the executor returns
\* (output must exist and be non-empty), then the rest of
\* video_first_frame_json / video_last_frame_json.
VideoResume(r) ==
    /\ pc[r] = "converted"
    /\ IsVideo(r)
    /\ loop = 0
    /\ \E fault \in Faults :
          LET out == task[r].target
              valid == ValidFrame(fs, out)
          IN IF task[r].result # "ok"
             THEN /\ Fail(r, fs, 500, task[r].result, fault)
                  /\ UNCHANGED <<filepath, frame_path, bg>>
             ELSE IF ~valid
             THEN /\ Fail(r, fs, 500, NoValidFrame, fault)
                  /\ UNCHANGED <<filepath, frame_path, bg>>
             ELSE LET c == cleanup_file(fs, filepath[r], fault)
                      made == <<CleanupCall(filepath[r], fault, "handler")>>
                      sched == ScheduleCleanup(c.fs, bg[r], out, fault)
                  IN IF c.raised
                     THEN /\ FailWith(r, filepath[r], out, c.fs, made, 500, "OSError", fault)
                          /\ frame_path' = Set(frame_path, r, out)
                          /\ UNCHANGED <<filepath, bg>>
                     ELSE /\ fs' = sched.fs
                          /\ bg' = Set(bg, r, sched.bg)
                          /\ log' = Set(log, r, log[r] \o made \o sched.calls)
                          /\ frame_path' = Set(frame_path, r, out)
                          /\ filepath' = Set(filepath, r, NoPath)
                          /\ resp' = Set(resp, r, FileResp(out))
                          /\ pc' = Set(pc, r, "respond")
    /\ UNCHANGED <<loop, req, task, touched, io, last>>

\* ------------------------------------------------------------------------
\* Direct transfer: the server sends the FileResponse, then runs its
\* background tasks

\* FileResponse starts: it stats the file and fails if it is missing.
SendBegin(r) ==
    /\ pc[r] = "respond"
    /\ loop = 0
    /\ IF Exists(fs, resp[r].out)
       THEN /\ pc' = Set(pc, r, "sending")
            /\ UNCHANGED resp
       ELSE /\ pc' = Set(pc, r, "done")
            /\ resp' = Set(resp, r, EscapedResp("RuntimeError"))
    /\ UNCHANGED <<fs, loop, req, filepath, frame_path, task, bg, touched, io, log, last>>

\* The last chunk of the body has been sent.
SendEnd(r) ==
    /\ pc[r] = "sending"
    /\ loop = 0
    /\ pc' = Set(pc, r, IF bg[r] = <<>> THEN "done" ELSE "flushed")
    /\ UNCHANGED <<fs, loop, req, filepath, frame_path, task, bg, resp, touched, io,
                   log, last>>

\* The next background task of the response runs (cleanup_file, on a thread).
RunBackground(r) ==
    /\ pc[r] = "flushed"
    /\ bg[r] # <<>>
    /\ \E fault \in Faults :
          /\ fs' = cleanup_file(fs, Head(bg[r]), fault).fs
          /\ log' = Set(log, r, Append(log[r], CleanupCall(Head(bg[r]), fault, "background")))
    /\ bg' = Set(bg, r, Tail(bg[r]))
    /\ pc' = Set(pc, r, IF Tail(bg[r]) = <<>> THEN "done" ELSE "flushed")
    /\ UNCHANGED <<loop, req, filepath, frame_path, task, resp, touched, io, last>>

\* ------------------------------------------------------------------------
\* Specification of the service

Next ==
    \E r \in Reqs :
        \/ FormRequest(r)
        \/ JsonRequest(r)
        \/ VideoRequest(r)
        \/ SaveRun(r)
        \/ AfterSave(r)
        \/ FetchEnd(r)
        \/ PredictAndSave(r)
        \/ DiscoverRename(r)
        \/ ConvertToWavSync(r)
        \/ RunFfmpeg(r)
        \/ AudioResume(r)
        \/ VideoResume(r)
        \/ SendBegin(r)
        \/ SendEnd(r)
        \/ RunBackground(r)

Spec == Init /\ [][Next]_vars

\* Every step but the arrival of a request is taken once it can be: a thread
\* of the pool runs its job, requests.get returns within its timeout, the
\* loop resumes a ready coroutine, and the client reads the response.
Progress(r) ==
    \/ SaveRun(r)
    \/ AfterSave(r)
    \/ FetchEnd(r)
    \/ PredictAndSave(r)
    \/ DiscoverRename(r)
    \/ ConvertToWavSync(r)
    \/ RunFfmpeg(r)
    \/ AudioResume(r)
    \/ VideoResume(r)
    \/ SendBegin(r)
    \/ SendEnd(r)
    \/ RunBackground(r)

FairSpec == Spec /\ \A r \in Reqs : WF_vars(Progress(r))

\* ------------------------------------------------------------------------
\* Specification of cleanup_file alone: any store over a few paths, then
\* any sequence of calls under any operating-system fault.

HarnessPaths ==
    {UploadPath(uuid4(r, 1), ".mp3") : r \in Reqs}
        \cup {FramePath(uuid4(r, 2), ".png") : r \in Reqs}

CleanupInit ==
    /\ fs \in {[p \in S |-> "complete"] : S \in SUBSET HarnessPaths}
    /\ loop = 0
    /\ pc = [r \in Reqs |-> "idle"]
    /\ req = [r \in Reqs |-> NoReq]
    /\ filepath = [r \in Reqs |-> NoPath]
    /\ frame_path = [r \in Reqs |-> NoPath]
    /\ task = [r \in Reqs |-> NoTask]
    /\ bg = [r \in Reqs |-> <<>>]
    /\ resp = [r \in Reqs |-> NoResp]
    /\ touched = [r \in Reqs |-> {}]
    /\ io = [r \in Reqs |-> {}]
    /\ log = [r \in Reqs |-> <<>>]
    /\ last = NoCall

CleanupStep ==
    \E p \in HarnessPaths, fault \in AllFaults :
        LET c == cleanup_file(fs, p, fault)
        IN /\ fs' = c.fs
           /\ last' = [path |-> p, existed |-> Exists(fs, p), before |-> fs,
                       after |-> c.fs, raised |-> c.raised, fault |-> fault,
                       calls |-> IF last.path = p THEN 2 ELSE 1]
           /\ UNCHANGED <<loop, pc, req, filepath, frame_path, task, bg, resp,
                          touched, io, log>>

SpecCleanup == CleanupInit /\ [][CleanupStep]_vars

\* ------------------------------------------------------------------------
\* The discovery of the engine's output, called on every content of midis/
\* the engine can leave for the input uploads/<uuid4(1, 1)>.mp3.

DiscoverStem == Stem(UploadPath(uuid4(1, 1), ".mp3"))
DiscoverTarget == MidiPath(uuid4(1, 2), ".mid")
DiscoverPaths ==
    {MidiPath(DiscoverStem, MidiSuffixes[i]) : i \in DOMAIN MidiSuffixes}
        \cup {MidiPath(DiscoverStem, "_notes.mid"),
              MidiPath(Stem(UploadPath(uuid4(2, 1), ".mp3")), MidiSuffixes[1])}

DiscoverInit ==
    /\ fs \in UNION {[S -> {"complete", "partial"}] : S \in SUBSET DiscoverPaths}
    /\ loop = 0
    /\ pc = [r \in Reqs |-> "idle"]
    /\ req = [r \in Reqs |-> NoReq]
    /\ filepath = [r \in Reqs |-> NoPath]
    /\ frame_path = [r \in Reqs |-> NoPath]
    /\ task = [r \in Reqs |-> NoTask]
    /\ bg = [r \in Reqs |-> <<>>]
    /\ resp = [r \in Reqs |-> NoResp]
    /\ touched = [r \in Reqs |-> {}]
    /\ io = [r \in Reqs |-> {}]
    /\ log = [r \in Reqs |-> <<>>]
    /\ last = [fn |-> "_convert_to_midi_sync", done |-> FALSE, before |-> fs,
               result |-> "pending"]

DiscoverStep ==
    /\ ~last.done
    /\ LET d == DiscoverAndRename(fs, DiscoverStem, DiscoverTarget)
       IN /\ fs' = d.fs
          /\ last' = [last EXCEPT !.done = TRUE, !.result = d.result]
    /\ UNCHANGED <<loop, pc, req, filepath, frame_path, task, bg, resp,
                   touched, io, log>>

SpecDiscover == DiscoverInit /\ [][DiscoverStep]_vars

\* ------------------------------------------------------------------------
\* The option handling of the download and of the frame extraction, called
\* on every combination of the values of the model.

DownloadCalls ==
    [fn : {"download_file_from_url"}, done : {FALSE},
     suffix : UrlSuffixes, contentType : ContentTypes,
     kind : {"none"}, format : {None}, quality : {Absent}, width : {Absent},
     height : {Absent}, sws_flags : {None},
     ext : {""}, cmd : {<<>>}]

ExtractCalls ==
    [fn : {"extract_frame"}, done : {FALSE},
     suffix : {""}, contentType : {""},
     kind : {"first", "last"}, format : Formats, quality : Qualities,
     width : Dimensions, height : Dimensions, sws_flags : SwsFlags,
     ext : {""}, cmd : {<<>>}]

OptionsInit ==
    /\ fs = EmptyStore
    /\ loop = 0
    /\ pc = [r \in Reqs |-> "idle"]
    /\ req = [r \in Reqs |-> NoReq]
    /\ filepath = [r \in Reqs |-> NoPath]
    /\ frame_path = [r \in Reqs |-> NoPath]
    /\ task = [r \in Reqs |-> NoTask]
    /\ bg = [r \in Reqs |-> <<>>]
    /\ resp = [r \in Reqs |-> NoResp]
    /\ touched = [r \in Reqs |-> {}]
    /\ io = [r \in Reqs |-> {}]
    /\ log = [r \in Reqs |-> <<>>]
    /\ last \in DownloadCalls \cup ExtractCalls

\* download_file_from_url chooses the extension of the stored file.
InferExtStep ==
    /\ last.fn = "download_file_from_url" /\ ~last.done
    /\ last' = [last EXCEPT !.done = TRUE,
                            !.ext = InferExt(last.suffix, last.contentType)]
    /\ UNCHANGED <<fs, loop, pc, req, filepath, frame_path, task, bg, resp,
                   touched, io, log>>

\* extract_first_frame / extract_last_frame name the frame file and build
\* the command line.
ExtractStep ==
    /\ last.fn = "extract_frame" /\ ~last.done
    /\ LET image_format == ImageFormat(last.format)
           ext == FrameSuffix(image_format)
       IN last' = [last EXCEPT
                      !.done = TRUE,
                      !.ext = ext,
                      !.cmd = FfmpegArgs(last.kind, last.width, last.height,
                                         image_format, last.quality,
                                         last.sws_flags, ext)]
    /\ UNCHANGED <<fs, loop, pc, req, filepath, frame_path, task, bg, resp,
                   touched, io, log>>

SpecOptions == OptionsInit /\ [][InferExtStep \/ ExtractStep]_vars

\* ------------------------------------------------------------------------
\* Properties

Done(r) == pc[r] = "done"
Failed(r) == Done(r) /\ resp[r].mode = "error"
Succeeded(r) == resp[r].mode \in {"url", "file"}
CallsOn(r, p) == {i \in DOMAIN log[r] : log[r][i].path = p}

\* C1: after a failure response, no path the request created, wrote or
\* renamed to is left in the store.
C1_NoArtifactAfterFailure ==
    \A r \in Reqs : Failed(r) => touched[r] \cap DOMAIN fs = {}

\* C2: a request that is fetching its URL or running its converter does not
\* occupy the event loop, so the loop can advance other requests.
C2_BlockingWorkOffLoop ==
    \A r \in Reqs :
        pc[r] \in {"fetching", "converting", "engine done"} => loop # r

\* C3: an audio request whose handler receives both an upload and a URL, or
\* neither, ends with status 400 without having written a file, fetched a
\* URL or dispatched a converter.
C3_InvalidSourceBeforeIO ==
    \A r \in Reqs :
        (IsAudio(r) /\ req[r].source \in {"both", "neither"} /\ ~resp[r].escaped)
            => /\ Done(r)
               /\ resp[r].status = 400
               /\ resp[r].mode = "error"
               /\ io[r] = {}
               /\ touched[r] = {}

C3_Witness ==
    \E r \in Reqs :
        /\ req[r].route \in AudioFormRoutes
        /\ req[r].source = "both"
        /\ resp[r].status = 400

\* C4: no path, and no identifier, is created, written or renamed to by two
\* different requests, whatever the interleaving.
C4_PathsNotShared ==
    \A r1, r2 \in Reqs :
        r1 # r2 =>
            /\ touched[r1] \cap touched[r2] = {}
            /\ {p[2] : p \in touched[r1]} \cap {p[2] : p \in touched[r2]} = {}

C4_Witness ==
    \E r1, r2 \in Reqs :
        /\ r1 # r2
        /\ pc[r1] = "converted" /\ pc[r2] = "converted"
        /\ \E p1 \in touched[r1], p2 \in touched[r2] : p1[1] = "midis" /\ p2[1] = "midis"

BeforeReturn(r) == pc[r] \in {"converting", "engine done", "converted"}

\* C5 as claimed: the converter runs on a fully written input, the input
\* outlives the converter, and a success response is never built while the
\* input still exists.
C5_StrictOrder ==
    \A r \in Reqs :
        /\ BeforeReturn(r) =>
              /\ Exists(fs, task[r].path)
              /\ fs[task[r].path] = "complete"
              /\ log[r] = <<>>
        /\ Succeeded(r) => ~Exists(fs, task[r].path)

\* C5 as amended: the converter runs on a fully written input, no cleanup
\* happens before the converter has returned, and a success response is
\* built only after cleanup_file was called on the input; the input is then
\* gone unless the operating system refused the removal.
C5_StrictOrderBestEffort ==
    \A r \in Reqs :
        /\ BeforeReturn(r) =>
              /\ Exists(fs, task[r].path)
              /\ fs[task[r].path] = "complete"
              /\ log[r] = <<>>
        /\ Succeeded(r) =>
              /\ log[r] # <<>>
              /\ log[r][1] = CleanupCall(task[r].path, log[r][1].fault, "handler")
              /\ Exists(fs, task[r].path) => log[r][1].fault = "perm"

C5_Witness ==
    \E r \in Reqs :
        /\ resp[r].mode = "url"
        /\ req[r].source = "file"
        /\ ~Exists(fs, task[r].path)

FrameCleanups(r) == CallsOn(r, frame_path[r])

C6_NotBeforeTransferEnds ==
    \A r \in Reqs :
        pc[r] \in {"respond", "sending"} =>
            /\ Exists(fs, frame_path[r])
            /\ FrameCleanups(r) = {}

C6_ExactlyOnce ==
    \A r \in Reqs :
        (Done(r) /\ resp[r].mode = "file") =>
            /\ Cardinality(FrameCleanups(r)) = 1
            /\ \A i \in FrameCleanups(r) :
                  /\ log[r][i].phase = "background"
                  /\ Exists(fs, frame_path[r]) => log[r][i].fault = "perm"

\* C6 as claimed, in the part a finished request shows: once a direct
\* transfer request is over, its frame is no longer in frames/.
C6_FrameGoneAfterTransfer ==
    \A r \in Reqs :
        (Done(r) /\ resp[r].mode = "file") => ~Exists(fs, frame_path[r])

\* C6 as amended: the frame exists, and no deletion of it has been attempted,
\* until the transfer has completed; after the transfer cleanup_file is
\* eventually called on it, exactly once, and removes it unless the
\* operating system refuses the removal.
C6_DeferredCleanup ==
    /\ [](C6_NotBeforeTransferEnds /\ C6_ExactlyOnce)
    /\ \A r \in Reqs :
          (pc[r] = "respond") ~> (Done(r) /\ Cardinality(FrameCleanups(r)) = 1)

C6_Witness ==
    \E r \in Reqs :
        /\ Done(r)
        /\ resp[r].mode = "file"
        /\ ~Exists(fs, frame_path[r])
        /\ Cardinality(FrameCleanups(r)) = 1

\* C7: the output named in a URL-mode success response stays in the store,
\* whatever this request and every other request do afterwards.
C7_UrlOutputKept ==
    \A r \in Reqs : resp[r].mode = "url" => Exists(fs, resp[r].out)

C7_Witness ==
    \E r1, r2 \in Reqs :
        /\ r1 < r2
        /\ resp[r1].mode = "url"
        /\ Exists(fs, resp[r1].out)
        /\ Done(r2)
        /\ \E i \in DOMAIN log[r2] : log[r2][i].fault = "ok"
        /\ \E p \in touched[r2] : p[1] = resp[r1].out[1]

\* C8: cleanup_file never raises, whatever the operating system does; on a
\* path that does not exist (in particular on the second of two calls in a
\* row) it leaves the store unchanged.
C8_CleanupNeverRaises ==
    last.calls > 0 =>
        /\ ~last.raised
        /\ last.existed \/ last.after = last.before
        /\ fs = last.after

C8_Witness ==
    /\ last.calls = 2
    /\ ~last.existed
    /\ last.before # EmptyStore

\* C9: no request ends with an exception leaving the handler untranslated.
C9_ErrorsTranslated ==
    \A r \in Reqs : ~resp[r].escaped

OutputDir(r) ==
    CASE Kind(req[r].route) = "midi" -> "midis"
      [] Kind(req[r].route) = "wav" -> "wavs"
      [] OTHER -> "frames"

SuccessfulRuns == {"basic_pitch", "plain", "transcription", "ok", "exit 0"}

\* C10: a success response refers to an output in the route's output
\* directory that exists when the response is returned (and until it has
\* been transferred, or for good in URL mode), is complete, and comes from a
\* converter run that reported success; a run that failed gives a failure
\* response.
C10_NoPartialResult ==
    \A r \in Reqs :
        /\ Succeeded(r) =>
              /\ resp[r].status = 200
              /\ resp[r].out = task[r].target
              /\ resp[r].out[1] = OutputDir(r)
              /\ task[r].result = "ok"
              /\ task[r].engine \in SuccessfulRuns
              /\ (resp[r].mode = "url" \/ pc[r] \in {"respond", "sending"}) =>
                    /\ Exists(fs, resp[r].out)
                    /\ fs[resp[r].out] = "complete"
        /\ (Done(r) /\ task[r].engine \notin SuccessfulRuns) => resp[r].mode = "error"

C10_Witness ==
    \E r \in Reqs :
        /\ resp[r].mode = "file"
        /\ pc[r] = "sending"
        /\ fs[resp[r].out] = "complete"

\* The declared names that end in .mp3 when letter case is ignored.
Mp3Names == {"a.mp3", "A.MP3"}

\* C11: an audio upload whose declared name does not end in .mp3 (case
\* ignored) ends with status 400 and writes nothing; otherwise a fresh
\* upload path is written, and it is complete whenever the converter runs.
C11_UploadExtensionChecked ==
    \A r \in Reqs :
        req[r].source = "file" =>
            IF req[r].filename \in Mp3Names
            THEN /\ UploadPath(uuid4(r, 1), ".mp3") \in touched[r]
                 /\ "write" \in io[r]
                 /\ "dispatch" \in io[r] => task[r].path = UploadPath(uuid4(r, 1), ".mp3")
                 /\ BeforeReturn(r) => fs[task[r].path] = "complete"
                 /\ pc[r] \in {"saving", "saved"} => "dispatch" \notin io[r]
            ELSE /\ Done(r)
                 /\ resp[r] = ErrorResp(400, "only MP3 files")
                 /\ touched[r] = {}
                 /\ io[r] = {}

C11_Witness ==
    \E r1, r2 \in Reqs :
        /\ req[r1].source = "file" /\ req[r1].filename = "a.wav" /\ Done(r1)
        /\ req[r2].source = "file" /\ req[r2].filename = "A.MP3"
        /\ pc[r2] = "converting"

\* The files of the store whose name carries an identifier drawn for r.
FilesOf(r) == {p \in DOMAIN fs : p[2] \in {uuid4(r, 1), uuid4(r, 2)}}

\* C12: a request whose URL cannot be reached ends with status 400 and the
\* download-failed message, no file of its own in uploads/ or in an output
\* directory, and no converter dispatched.
C12_UnreachableLeavesNothing ==
    \A r \in Reqs :
        "unreachable" \in io[r] =>
            /\ Done(r)
            /\ resp[r] = ErrorResp(400, IF IsVideo(r) THEN "video download failed"
                                        ELSE "MP3 download failed")
            /\ FilesOf(r) = {}
            /\ touched[r] = {}
            /\ io[r] = {"fetch", "unreachable"}
            /\ task[r] = NoTask
            /\ log[r] = <<>>

C12_Witness ==
    \E r1, r2 \in Reqs :
        /\ "unreachable" \in io[r1] /\ IsVideo(r1)
        /\ "unreachable" \in io[r2] /\ IsAudio(r2)

\* ------------------------------------------------------------------------
\* Option handling

InferExtCalled == last.fn = "download_file_from_url" /\ last.done
ExtractCalled == last.fn = "extract_frame" /\ last.done

\* C13: when the URL path ends in one of .mp4 .mov .m4v .webm .mkv .avi, the
\* stored input file has that extension, whatever content type is declared.
C13_RecognizedSuffixKept ==
    (InferExtCalled /\ last.suffix \in {".mp4", ".mov", ".m4v", ".webm", ".mkv", ".avi"})
        => last.ext = last.suffix

C13_Witness ==
    /\ InferExtCalled
    /\ last.suffix = ".mov"
    /\ last.contentType = "video/webm"

\* The extension each declared content type of the model stands for.
DeclaredExt(contentType) ==
    CASE contentType \in {"video/mp4", "video/mp4; codecs=avc1"} -> ".mp4"
      [] contentType \in {"video/webm", "VIDEO/WEBM"} -> ".webm"
      [] contentType = "video/quicktime" -> ".mov"
      [] contentType = "video/x-matroska" -> ".mkv"
      [] OTHER -> ".mp4"

RecognizedSuffixes == {".mp4", ".mov", ".m4v", ".webm", ".mkv", ".avi"}
RecognizedAnyCase == RecognizedSuffixes \cup {".MP4", ".WebM"}

\* C14, as stated: when the URL path does not end in one of the recognized
\* extensions, the stored input file has the extension its declared content
\* type stands for, and .mp4 when there is none.
C14_DerivedFromContentType ==
    (InferExtCalled /\ last.suffix \notin RecognizedSuffixes)
        => last.ext = DeclaredExt(last.contentType)

\* C14, amended: the same, for the URL paths that do not end in a recognized
\* extension in any letter case; a recognized extension written in upper
\* case is stored in lower case, whatever the content type.
C14_DerivedFromContentTypeAnyCase ==
    InferExtCalled =>
        /\ last.suffix \notin RecognizedAnyCase => last.ext = DeclaredExt(last.contentType)
        /\ last.suffix = ".MP4" => last.ext = ".mp4"
        /\ last.suffix = ".WebM" => last.ext = ".webm"

C14_Witness ==
    /\ InferExtCalled
    /\ last.suffix = ".bin"
    /\ last.contentType = "video/x-matroska"
    /\ last.ext = ".mkv"

\* ------------------------------------------------------------------------
\* The command line of a frame extraction

Options(flag) == {i \in 1..Len(last.cmd) : last.cmd[i].flag = flag}
JpgRequested == last.format \in {"jpg", "JPG", "jpeg", "JPEG"}

\* C16: with jpg output the command line carries one -q:v option; its value
\* is the requested quality when that is an integer in 2..31 and 2 otherwise.
C16_QualityClamped ==
    (ExtractCalled /\ last.ext = ".jpg") =>
        /\ Cardinality(Options("-q:v")) = 1
        /\ \A i \in Options("-q:v") :
              /\ Len(last.cmd[i].nums) = 1
              /\ last.cmd[i].nums[1] \in 2..31
              /\ (last.quality.some /\ last.quality.v \in 2..31)
                    => last.cmd[i].nums[1] = last.quality.v
              /\ (~last.quality.some \/ last.quality.v < 2 \/ last.quality.v > 31)
                    => last.cmd[i].nums[1] = 2

C16_Witness ==
    /\ ExtractCalled
    /\ last.ext = ".jpg"
    /\ last.quality = Some(31)
    /\ last.kind = "last"
    /\ \E i \in Options("-q:v") : last.cmd[i].nums = <<31>>

\* C18: whenever the frame file is a PNG, the command line carries the
\* options -compression_level 0 and -pix_fmt rgb24.
C18_PngUncompressedRgb24 ==
    (ExtractCalled /\ last.ext = ".png") =>
        /\ \E i \in Options("-compression_level") : last.cmd[i].nums = <<0>>
        /\ \E i \in Options("-pix_fmt") : last.cmd[i].text = "rgb24"

\* C19, as stated: the frame file ends in .jpg exactly when the requested
\* format is the string jpg, and in .png otherwise.
C19_JpgOnlyForJpg ==
    ExtractCalled =>
        /\ last.ext \in {".jpg", ".png"}
        /\ last.ext = ".jpg" <=> last.format = "jpg"

\* C19, amended: the frame file ends in .jpg exactly when the requested
\* format is jpg or jpeg in any letter case, and in .png for an absent
\* format, a non-string format and every other string.
C19_JpgForJpgAndJpeg ==
    ExtractCalled =>
        /\ last.ext \in {".jpg", ".png"}
        /\ last.ext = ".jpg" <=> JpgRequested
        /\ last.cmd[Len(last.cmd)] = Opt("output", last.ext, <<>>)

C19_Witness ==
    /\ ExtractCalled
    /\ last.format = "gif"
    /\ last.ext = ".png"

\* ------------------------------------------------------------------------
\* The response of a frame extraction

\* C15: a response that streams the frame file declares the media type of
\* that file: image/jpeg for a .jpg frame, image/png for a .png frame.
C15_MediaTypeMatchesFrame ==
    \A r \in Reqs :
        resp[r].mode = "file" =>
            resp[r].media_type = (IF resp[r].out[3] = ".jpg" THEN "image/jpeg"
                                  ELSE "image/png")

FailedRuns == {"exit 0, empty file", "exit 0, no file", "exit 1",
               "exit 1, partial file", "not found"}

\* C17: a frame extraction whose ffmpeg run ends with exit code 0 and an
\* empty or missing output, with a non-zero exit code, or with no ffmpeg
\* executable, ends in a failure response whose message carries the stderr
\* text of the run.
C17_FailureCarriesStderr ==
    \A r \in Reqs :
        (Done(r) /\ IsVideo(r) /\ task[r].engine \in FailedRuns) =>
            /\ resp[r].mode = "error"
            /\ resp[r].status = 500
            /\ resp[r].detail = "ffmpeg failed: <stderr>"

\* ------------------------------------------------------------------------
\* Discovery of the MIDI file

Primary == <<"midis", DiscoverStem, "_basic_pitch.mid">>
Fallback1 == <<"midis", DiscoverStem, ".mid">>
Fallback2 == <<"midis", DiscoverStem, "_transcription.mid">>

\* The candidate that must be renamed, given the files present before.
ExpectedSource(before) ==
    IF Primary \in DOMAIN before THEN Primary
    ELSE IF Fallback1 \in DOMAIN before THEN Fallback1
    ELSE IF Fallback2 \in DOMAIN before THEN Fallback2
    ELSE NoPath

\* C20: the first existing one of <stem>_basic_pitch.mid, <stem>.mid and
\* <stem>_transcription.mid is renamed to <file_id>.mid and no other file
\* changes; when none exists the conversion fails and no target is created.
C20_FirstCandidateRenamed ==
    last.done =>
        LET before == last.before
            source == ExpectedSource(before)
        IN IF source = NoPath
           THEN /\ last.result = "no MIDI output found"
                /\ fs = before
                /\ DiscoverTarget \notin DOMAIN fs
           ELSE /\ last.result = "ok"
                /\ DOMAIN before \ DOMAIN fs = {source}
                /\ DOMAIN fs \ DOMAIN before = {DiscoverTarget}
                /\ fs[DiscoverTarget] = before[source]
                /\ \A p \in DOMAIN before \ {source} : fs[p] = before[p]

C20_Witness ==
    /\ last.done
    /\ Primary \notin DOMAIN last.before
    /\ Fallback1 \in DOMAIN last.before
    /\ Fallback2 \in DOMAIN last.before
    /\ last.result = "ok"
    /\ Fallback2 \in DOMAIN fs

\* ------------------------------------------------------------------------
\* Scaling

Scaled == Options("-vf") # {}
PassedSide(side) == IF side.some /\ side.v > 0 THEN side.v ELSE -1

\* What C21 says of the dimensions and of the resampling flag once a scale
\* filter is or is not passed: a positive dimension as given, any other
\* as -1, and -sws_flags with the requested text only next to a filter.
ScaleShape ==
    /\ Cardinality(Options("-vf")) <= 1
    /\ \A i \in Options("-vf") :
          /\ last.cmd[i].text = "scale"
          /\ last.cmd[i].nums = <<PassedSide(last.width), PassedSide(last.height)>>
    /\ Options("-sws_flags") # {} => Scaled
    /\ \A i \in Options("-sws_flags") : last.cmd[i].text = last.sws_flags
    /\ (Scaled /\ last.sws_flags = "lanczos") => Options("-sws_flags") # {}

\* C21, as stated: a scale filter is passed whenever a width and/or a height
\* is supplied, a positive dimension as given and a missing one as -1; the
\* resampling flag is passed only with a scale filter.
C21_ScaledWheneverSupplied ==
    ExtractCalled =>
        /\ (last.width.some \/ last.height.some) <=> Scaled
        /\ ScaleShape

\* C21, amended: a scale filter is passed exactly when a width and/or a
\* height other than 0 is supplied; a positive dimension is passed as given,
\* a missing, zero or negative one as -1; the resampling flag is passed only
\* with a scale filter.
C21_ScaledWhenNonZeroSupplied ==
    ExtractCalled =>
        /\ Scaled <=> \/ (last.width.some /\ last.width.v # 0)
                      \/ (last.height.some /\ last.height.v # 0)
        /\ ScaleShape

C21_Witness ==
    /\ ExtractCalled
    /\ last.width = Some(320)
    /\ last.height = Absent
    /\ last.sws_flags = "lanczos"
    /\ \E i \in Options("-vf") : last.cmd[i].nums = <<320, -1>>
    /\ Options("-sws_flags") # {}

\* ------------------------------------------------------------------------
\* Concurrent MIDI conversions

NamedOutputs == {"basic_pitch", "plain", "transcription"}

\* The paths whose presence or content a step changes.
Changed ==
    {p \in DOMAIN fs \cup DOMAIN fs' :
        ~(p \in DOMAIN fs /\ p \in DOMAIN fs' /\ fs[p] = fs'[p])}

\* The engine output of a request waiting for its discovery step is in
\* place, untouched.
EngineOutputInPlace ==
    \A r \in Reqs :
        (pc[r] = "engine done" /\ task[r].engine \in NamedOutputs) =>
            \E p \in touched[r] :
                /\ p[1] = "midis"
                /\ p # task[r].target
                /\ Exists(fs, p)
                /\ fs[p] = "complete"

\* A discovery step of r changes only files of r: never one that another
\* request created, and never one outside r's own stem and file id.
OwnFilesOnly ==
    \A r \in Reqs :
        (pc[r] = "engine done" /\ pc'[r] = "converted") =>
            /\ \A p \in Changed :
                  /\ p[1] = "midis"
                  /\ p[2] \in {task[r].path[2], task[r].target[2]}
                  /\ \A r2 \in Reqs \ {r} : p \notin touched[r2]
            /\ \A r2 \in Reqs \ {r} : task[r].target \notin touched[r2]

\* C22: in every interleaving of MIDI requests, the discovery-and-rename
\* step of a request renames, overwrites or removes no engine output of
\* another request; it changes only names built from its own upload stem
\* and its own file id.
C22_DiscoveryIsolated == []EngineOutputInPlace /\ [][OwnFilesOnly]_vars

C22_Witness ==
    \E r1, r2 \in Reqs :
        /\ r1 # r2
        /\ pc[r1] = "converted" /\ task[r1].result = "ok"
        /\ Kind(req[r1].route) = "midi"
        /\ Exists(fs, task[r1].target)
        /\ pc[r2] = "engine done" /\ task[r2].engine \in NamedOutputs

\* ------------------------------------------------------------------------
\* Status of a failure

FetchFailures == {"unreachable", "http error", "stream broken"}

\* The stage at which a failed request stopped, read from what it had done.
FailedStage(r) ==
    IF io[r] = {} THEN "validation"
    ELSE IF io[r] \cap FetchFailures # {} THEN "download"
    ELSE IF task[r].result \notin {"ok", "OSError"} THEN "converter"
    ELSE "other"

\* The message a request is rejected with at validation.
ValidationMessage(r) ==
    CASE req[r].source = "both" -> "only one of file and URL"
      [] req[r].source = "file" -> "only MP3 files"
      [] IsVideo(r) -> "provide a video URL"
      [] OTHER -> "provide an MP3 file or a URL"

\* C23: a failure answered by the handler has status 400 with the message
\* it was raised with when validation or the download failed, and status
\* 500 carrying the message of the exception when a converter or any other
\* step of the try block failed.
C23_StatusByStage ==
    \A r \in Reqs :
        (Failed(r) /\ ~resp[r].escaped) =>
            CASE FailedStage(r) = "validation" ->
                    /\ resp[r].status = 400
                    /\ resp[r].detail = ValidationMessage(r)
              [] FailedStage(r) = "download" ->
                    /\ resp[r].status = 400
                    /\ resp[r].detail = (IF IsVideo(r) THEN "video download failed"
                                         ELSE "MP3 download failed")
              [] FailedStage(r) = "converter" ->
                    /\ resp[r].status = 500
                    /\ resp[r].detail = task[r].result
                    /\ task[r].engine # "none"
              [] OTHER ->
                    /\ resp[r].status = 500
                    /\ resp[r].detail
                          \in {"conversion failed: OSError",
                               "ffmpeg finished but produced no valid frame file"}

C23_Witness ==
    \E r1, r2 \in Reqs :
        /\ Failed(r1) /\ "http error" \in io[r1] /\ resp[r1].status = 400
        /\ Failed(r2) /\ task[r2].engine = "raise" /\ resp[r2].status = 500

\* ------------------------------------------------------------------------
\* Net change to the store

UrlSuccess(r) ==
    /\ Done(r)
    /\ IsAudio(r)
    /\ req[r].source = "url"
    /\ resp[r].mode = "url"

\* The files in the store that request r created or that carry one of its
\* identifiers.
Remaining(r) == {p \in DOMAIN fs : p \in touched[r]} \cup FilesOf(r)

\* The operating system refused the removal of p when r cleaned it up.
RemovalRefused(r, p) ==
    \E i \in DOMAIN log[r] : log[r][i].path = p /\ log[r][i].fault = "perm"

OutputInPlace(r) ==
    /\ resp[r].out \in Remaining(r)
    /\ resp[r].out[1] = (IF Kind(req[r].route) = "midi" THEN "midis" ELSE "wavs")
    /\ fs[resp[r].out] = "complete"

====
